---- MODULE Spec2Model ----
(***************************************************************************)
(* Doc-AI-Assistant: the ingestion script (scripts/setup_vectorstore.py)   *)
(* and the query script (scripts/langchain_rag.py) around one vector       *)
(* index.                                                                  *)
(*                                                                         *)
(* Python strings that the code takes apart or builds are sequences of     *)
(* tokens (a file name is <<stem, extension>>, an f-string is the          *)
(* concatenation of its parts); a dict is a record; a list is a sequence.  *)
(* An exit status is <<>> while the process runs and <<code>> afterwards.  *)
(***************************************************************************)
EXTENDS Integers, Sequences, FiniteSets, TLC

(* ------------------------------ bounds --------------------------------- *)
\* pages a large document has beyond the page budget
ExtraPages == 1
\* chunks the splitter cuts a dense page into
DenseChunks == 3
\* ask_question calls a hosted session makes
MaxCalls == 3
\* chunks one upsert request carries (the store writes in batches)
UpsertBatch == 10

(* ------------------------- program constants --------------------------- *)
max_pages == 50
k == 10
TopSources == 3

AZURE == "troubleshoot-azure-virtual-machines-windows"
IDENTITY == "windows-server-identity"
SECOPS == "security-operations"
M365 == "troubleshoot-microsoft-365-admintoc"

allowed_docs == { <<AZURE>>, <<IDENTITY>>, <<SECOPS>>, <<M365>> }

required_vars == << "OPENAI_API_KEY", "PINECONE_API_KEY", "PINECONE_INDEX_NAME" >>

test_questions ==
  << "How to troubleshoot Azure VM startup failures?",
     "How to configure Windows domain authentication?",
     "How can M365 administrators reset user passwords?" >>

Range(s) == { s[i] : i \in DOMAIN s }

(* --------------------------- string helpers ---------------------------- *)
\* str.lower() on the tokens file names are made of
Lower(tok) ==
  CASE tok = ".PDF" -> ".pdf"
    [] tok = ".Pdf" -> ".pdf"
    [] tok = "Security-Admin-Notes" -> "security-admin-notes"
    [] OTHER -> tok

\* the keywords of _classify_doc_type that occur inside a (lower-cased) token
WordsIn(tok) ==
  CASE tok = AZURE -> {"troubleshoot"}
    [] tok = IDENTITY -> {"identity"}
    [] tok = SECOPS -> {"security"}
    [] tok = M365 -> {"troubleshoot", "admin"}
    [] tok = "security-admin-notes" -> {"security", "admin"}
    [] OTHER -> {}

\* `word in name` for a name that is a sequence of tokens
Contains(name, word) == \E i \in DOMAIN name : word \in WordsIn(name[i])

\* name.lower()
LowerName(name) == [i \in DOMAIN name |-> Lower(name[i])]

\* f.lower().endswith('.pdf')
EndsWithPdf(f) == Len(f) > 0 /\ Lower(f[Len(f)]) = ".pdf"

\* str.replace(".pdf", ""): every occurrence of the exact token goes
RECURSIVE ReplacePdf(_)
ReplacePdf(f) ==
  IF f = <<>> THEN <<>>
  ELSE IF Head(f) = ".pdf" THEN ReplacePdf(Tail(f))
       ELSE <<Head(f)>> \o ReplacePdf(Tail(f))

(* ------------------------- DocumentProcessor --------------------------- *)
\* self.doc_urls.get(doc_name, "")
doc_urls(doc_name) ==
  CASE doc_name = <<AZURE>> -> "https://learn.microsoft.com/azure/virtual-machines/troubleshooting"
    [] doc_name = <<IDENTITY>> -> "https://learn.microsoft.com/windows-server/identity"
    [] doc_name = <<SECOPS>> -> "https://learn.microsoft.com/security/operations"
    [] doc_name = <<M365>> -> "https://learn.microsoft.com/microsoft-365/admin"
    [] OTHER -> ""

_classify_doc_type(doc_name) ==
  LET name == LowerName(doc_name) IN
  IF Contains(name, "troubleshoot") THEN "Troubleshooting"
  ELSE IF Contains(name, "identity") THEN "Authentication"
  ELSE IF Contains(name, "security") THEN "Security"
  ELSE IF Contains(name, "admin") THEN "Administration"
  ELSE "General"

\* A PDF on disk: its name, how many pages it has, how its text is laid out,
\* and whether the loader can read it.
PdfFile(name, npages, layout) ==
  [name |-> name, npages |-> npages, layout |-> layout, readable |-> TRUE]

\* PyPDFLoader.load(): one page document per page, metadata page = 0, 1, ...
LoadPages(file) == [i \in 1..file.npages |-> [page |-> i - 1, layout |-> file.layout]]

\* RecursiveCharacterTextSplitter on one page: how many chunks its text gives
\* (a page without text gives none); each chunk inherits the page's metadata.
ChunksOfPage(pg) ==
  CASE pg.layout = "dense" -> DenseChunks
    [] pg.layout = "single" -> 1
    [] pg.layout = "sparse" -> IF pg.page % 25 = 0 \/ pg.page = max_pages - 1 THEN 1
                               ELSE IF pg.page >= max_pages THEN 2 ELSE 0
    [] OTHER -> 0

RECURSIVE split_documents(_)
split_documents(pages) ==
  IF pages = <<>> THEN <<>>
  ELSE [j \in 1..ChunksOfPage(Head(pages)) |->
          [page |-> Head(pages).page,
           page_content |-> <<"page", ToString(Head(pages).page), "part", ToString(j)>>]]
       \o split_documents(Tail(pages))

\* pages[:self.max_pages] when len(pages) > self.max_pages
LimitPages(pages) ==
  IF Len(pages) > max_pages THEN SubSeq(pages, 1, max_pages) ELSE pages

\* 'page_number': chunk.metadata.get('page', 0) + 1
PageNumberOf(chunk) == chunk.page + 1

\* enumerate(chunks, 1)
ChunkIdOf_FromOne(i0) == i0

\* 'chunk_id': i   (i from enumerate(chunks); i0 is the 1-based position)
ChunkIdOf(i0) == i0 - 1

process_pdf(file) ==
  LET doc_name == ReplacePdf(file.name)
      pages == LimitPages(LoadPages(file))
      chunks == split_documents(pages)
  IN [i \in 1..Len(chunks) |->
        [page_content |-> chunks[i].page_content,
         doc_name |-> doc_name,
         doc_type |-> _classify_doc_type(doc_name),
         doc_url |-> doc_urls(doc_name),
         page |-> chunks[i].page,
         page_number |-> PageNumberOf(chunks[i]),
         chunk_id |-> ChunkIdOf(i)]]

\* the directory listings the ingestion run may find under data/demo_docs
BigDoc == PdfFile(<<AZURE, ".pdf">>, max_pages + ExtraPages, "sparse")
Corpora ==
  { [exists |-> FALSE, files |-> <<>>],
    [exists |-> TRUE, files |-> <<>>],
    [exists |-> TRUE, files |-> << PdfFile(<<"readme", ".txt">>, 1, "single") >>],
    [exists |-> TRUE, files |-> << PdfFile(<<SECOPS, ".pdf">>, 1, "single") >>],
    [exists |-> TRUE, files |-> << PdfFile(<<"notes", ".pdf">>, 2, "single"),
                                   PdfFile(<<SECOPS, ".pdf">>, 1, "single"),
                                   PdfFile(<<IDENTITY, ".pdf">>, 4, "dense"),
                                   PdfFile(<<SECOPS, ".PDF">>, 1, "single") >>],
    [exists |-> TRUE, files |-> << BigDoc,
                                   PdfFile(<<"Security-Admin-Notes", ".Pdf">>, 1, "dense"),
                                   PdfFile(<<M365, ".pdf">>, 0, "single"),
                                   PdfFile(<<"readme", ".txt">>, 1, "single") >>],
    [exists |-> TRUE, files |-> << PdfFile(<<M365, ".pdf">>, 2, "single"),
                                   [PdfFile(<<SECOPS, ".pdf">>, 1, "single") EXCEPT !.readable = FALSE],
                                   PdfFile(<<IDENTITY, ".pdf">>, 1, "single") >> ] }

\* [f for f in os.listdir(docs_dir) if f.lower().endswith('.pdf')]
PdfFilesIn(dir) == SelectSeq(dir.files, LAMBDA f : EndsWithPdf(f.name))

\* the loop of process_all_documents over the first n files
RECURSIVE ChunksOfFiles(_)
ChunksOfFiles(files) ==
  IF files = <<>> THEN <<>>
  ELSE process_pdf(Head(files)) \o ChunksOfFiles(Tail(files))

\* how many files the loop gets through before the loader raises
RECURSIVE ReadablePrefix(_)
ReadablePrefix(files) ==
  IF files = <<>> \/ ~Head(files).readable THEN 0
  ELSE 1 + ReadablePrefix(Tail(files))

VARIABLES
  index,        \* the vector index: the sequence of stored chunks
  ipc,          \* ingestion script: "start", "setup", "store", "exited"
  iexit,        \* ingestion script: exit status
  missing_vars, \* ingestion script: the missing variables main() found
  documents,    \* ingestion script: files process_pdf has been called on
  all_chunks,   \* ingestion script: result of process_all_documents
  upserted,     \* ingestion script: chunks this run wrote to the index
  listing       \* ingestion script: <<>>, or <<dir>> once data/demo_docs was looked at

ivars == << index, ipc, iexit, missing_vars, documents, all_chunks, upserted, listing >>

IngestInit ==
  /\ index = <<>>
  /\ ipc = "start"
  /\ iexit = <<>>
  /\ missing_vars = <<>>
  /\ documents = <<>>
  /\ all_chunks = <<>>
  /\ upserted = 0
  /\ listing = <<>>

\* os.getenv(var) for an environment: None, "" or a value
EnvValues == {"unset", "empty", "value"}
Truthy(v) == v = "value"

\* main(), lines 144-156: the environment pre-check
IngestMain ==
  /\ ipc = "start"
  /\ \E env \in [Range(required_vars) -> EnvValues] :
       LET missing == SelectSeq(required_vars, LAMBDA var : ~Truthy(env[var])) IN
       /\ missing_vars' = missing
       /\ IF missing # <<>>
          THEN ipc' = "exited" /\ iexit' = <<1>>
          ELSE ipc' = "setup" /\ iexit' = iexit
  /\ UNCHANGED << index, documents, all_chunks, upserted, listing >>

\* the check for an empty list of PDF files left out
NoEligibleFiles_DirOnly(dir) == ~dir.exists

\* process_all_documents, lines 85-91: the two FileNotFoundError checks
NoEligibleFiles(dir) == ~dir.exists \/ PdfFilesIn(dir) = <<>>

\* setup_vectorstore() steps 1-2: process_all_documents; a raise is caught at
\* line 140, setup_vectorstore returns False and main returns 1
ProcessAllDocuments ==
  /\ ipc = "setup"
  /\ \E dir \in Corpora :
       LET pdf_files == PdfFilesIn(dir)
           n == ReadablePrefix(pdf_files)
       IN /\ listing' = <<dir>>
          /\ IF NoEligibleFiles(dir)
             THEN \* FileNotFoundError
                  /\ ipc' = "exited" /\ iexit' = <<1>>
                  /\ UNCHANGED << documents, all_chunks >>
             ELSE IF n < Len(pdf_files)
             THEN \* loader.load() raises inside process_pdf of file n+1
                  /\ ipc' = "exited" /\ iexit' = <<1>>
                  /\ documents' = [i \in 1..(n + 1) |-> pdf_files[i].name]
                  /\ UNCHANGED all_chunks
             ELSE /\ ipc' = "store" /\ iexit' = iexit
                  /\ documents' = [i \in 1..n |-> pdf_files[i].name]
                  /\ all_chunks' = ChunksOfFiles(pdf_files)
  /\ UNCHANGED << index, missing_vars, upserted >>

\* setup_vectorstore() steps 3-4 and main's return: embeddings, then
\* PineconeVectorStore.from_documents, which writes the chunks batch after
\* batch while other processes read the index; a raise (of the embeddings,
\* or of an upsert request) ends the run with the batches written so far
CreateVectorStore ==
  /\ ipc = "store"
  /\ LET rest == Len(all_chunks) - upserted IN
     \/ \* OpenAIEmbeddings(...) or an upsert request raises
        /\ ipc' = "exited" /\ iexit' = <<1>>
        /\ UNCHANGED << index, upserted >>
     \/ \* one more batch, more to come
        /\ rest > UpsertBatch
        /\ index' = index \o SubSeq(all_chunks, upserted + 1, upserted + UpsertBatch)
        /\ upserted' = upserted + UpsertBatch
        /\ UNCHANGED << ipc, iexit >>
     \/ \* the last batch; from_documents returns
        /\ rest <= UpsertBatch
        /\ index' = index \o SubSeq(all_chunks, upserted + 1, Len(all_chunks))
        /\ upserted' = Len(all_chunks)
        /\ ipc' = "exited" /\ iexit' = <<0>>
  /\ UNCHANGED << missing_vars, documents, all_chunks, listing >>

Ingest == IngestMain \/ ProcessAllDocuments \/ CreateVectorStore


(* ------------------------- LangChainRAGSystem -------------------------- *)
Min(a, b) == IF a < b THEN a ELSE b

\* the retriever built without the filter
PassesFilter_Anything(chunk) == TRUE

\* "filter": {"doc_name": {"$in": self.allowed_docs}}
PassesFilter(chunk) == chunk.doc_name \in allowed_docs

\* "k": 10
TopK(ranked) == SubSeq(ranked, 1, Min(k, Len(ranked)))

\* The similarity order of the stored chunks for a question.  The embedding
\* space is outside the program; each question ranks the index in its own
\* order (here: the stored order read from a question-dependent position).
Offset(question, n) ==
  CASE question = <<test_questions[1]>> -> 0
    [] question = <<test_questions[2]>> -> n - 2
    [] OTHER -> n \div 3

BySimilarity(question, idx) ==
  LET n == Len(idx) IN
  IF n < 2 THEN idx
  ELSE [i \in 1..n |-> idx[((i - 1 + Offset(question, n)) % n) + 1]]

\* self.retriever.invoke(question) when the index answers: similarity search
\* restricted by the filter, the k nearest of what passes it
retriever_invoke(question, idx) ==
  TopK(SelectSeq(BySimilarity(question, idx), PassesFilter))

\* format_docs(docs), lines 142-153: one labelled block per document,
\* joined by the separator
FormatBlock(doc) ==
  <<"[Document]: ">> \o doc.doc_name \o
  <<"\n[Page]: ", ToString(doc.page_number), "\n[URL]: ", doc.doc_url, "\n[Content]: ">>
  \o doc.page_content

RECURSIVE format_docs(_)
format_docs(docs) ==
  IF docs = <<>> THEN <<>>
  ELSE IF Len(docs) = 1 THEN FormatBlock(docs[1])
  ELSE FormatBlock(Head(docs)) \o <<"\n\n---\n\n">> \o format_docs(Tail(docs))

\* document_titles.get(doc_name, "Microsoft Technical Documentation")
document_titles(doc_name) ==
  CASE doc_name = <<AZURE>> -> "Azure Virtual Machine Troubleshooting Guide"
    [] doc_name = <<IDENTITY>> -> "Windows Server Identity & Authentication"
    [] doc_name = <<SECOPS>> -> "Microsoft Security Operations Guide"
    [] doc_name = <<M365>> -> "Microsoft 365 Administration Guide"
    [] OTHER -> "Microsoft Technical Documentation"

\* docs[:3]
TopDocs(docs) == SubSeq(docs, 1, Min(TopSources, Len(docs)))

\* the seen_urls test dropped
KeepsUrl_NoDedup(url, seen_urls) == url # ""

\* `if url and url not in seen_urls`
KeepsUrl(url, seen_urls) == url # "" /\ url \notin seen_urls

\* the loop of lines 208-222 over `docs`, with the references and the urls
\* seen so far
RECURSIVE BuildReferences(_, _, _)
BuildReferences(docs, references, seen_urls) ==
  IF docs = <<>> THEN references
  ELSE LET doc == Head(docs)
           url == doc.doc_url
       IN IF KeepsUrl(url, seen_urls)
          THEN BuildReferences(Tail(docs),
                 Append(references, [title |-> document_titles(doc.doc_name), url |-> url]),
                 seen_urls \cup {url})
          ELSE BuildReferences(Tail(docs), references, seen_urls)

FormatSources(docs) == BuildReferences(TopDocs(docs), <<>>, {})

\* the three dicts ask_question returns
MissResponse(question) ==
  [question |-> question,
   answer |-> <<"No relevant documentation found">>,
   sources |-> <<>>,
   confidence |-> <<"0%">>]

\* the failure answered with the retrieval-miss response
ErrorResponse_AsMiss(question, e) == MissResponse(question)

ErrorResponse(question, e) ==
  [question |-> question,
   answer |-> <<"Error processing question: ">> \o e,
   sources |-> <<>>,
   confidence |-> <<"0%">>]

SuccessResponse(question, answer, references) ==
  [question |-> question, answer |-> answer, references |-> references]

\* what the external services may do
RetrieverErrors == { <<"index unreachable">> }
LlmErrors == { <<"model call failed">> }
InitErrors == { <<"PINECONE_INDEX_NAME not set">> }
LlmReplies == { <<"1. Open the portal.", "\n", "2. Restart the machine.">>,
                <<"No relevant documentation found">> }
Questions == { <<test_questions[i]>> : i \in DOMAIN test_questions }
\* the questions a hosted session asks
SessionQuestions == { <<test_questions[1]>>, <<test_questions[2]>> }

\* range(0, len(messages)) instead of range(0, len(messages), 2)
get_conversation_history_EveryIndex(messages) ==
  [j \in 1..(IF messages = <<>> THEN 0 ELSE Len(messages) - 1) |->
     [question |-> messages[j].content, answer |-> messages[j + 1].content]]

\* get_conversation_history(), lines 242-254
get_conversation_history(messages) ==
  [j \in 1..(Len(messages) \div 2) |->
     [question |-> messages[2 * j - 1].content, answer |-> messages[2 * j].content]]

HumanMessage(content) == [type |-> "human", content |-> content]
AIMessage(content) == [type |-> "ai", content |-> content]

NoResult == [none |-> TRUE]

VARIABLES
  host,         \* "script": run as __main__; "session": a host imported the class
  sys_argv,     \* sys.argv of the query script
  qpc,          \* query side position: "start", "ready", "asking", "retrieved",
                \* "synthesized", "memory_updated", "returned", "exited"
  qexit,        \* query script: exit status
  stdout,       \* query script: what it printed
  memory,       \* self.memory.chat_memory.messages
  question,     \* ask_question: its argument
  docs,         \* ask_question: local docs
  answer,       \* ask_question: local answer
  prompt,       \* what the language model was called with in this call, <<>> if it was not
  result,       \* what ask_question returned
  trace,        \* the stages the current ask_question call went through
  entry_memory, \* the memory when the current ask_question call was entered
  calls,        \* the calls that returned to the session host: question and response
  asked,        \* main(): how many test questions were submitted
  cleared       \* whether clear_memory was called

qvars == << host, sys_argv, qpc, qexit, stdout, memory, question, docs, answer,
            prompt, result, trace, entry_memory, calls, asked, cleared >>

vars == << ivars, qvars >>

QueryInit ==
  /\ host \in {"script", "session"}
  /\ sys_argv \in IF host = "session" THEN { <<>> }
                  ELSE { <<"langchain_rag.py">> }
                       \cup { <<"langchain_rag.py", q[1]>> : q \in Questions }
                       \cup { <<"langchain_rag.py", test_questions[1], "--verbose">> }
  /\ qpc = "start"
  /\ qexit = <<>>
  /\ stdout = <<>>
  /\ memory = <<>>
  /\ question = <<>>
  /\ docs = <<>>
  /\ answer = <<>>
  /\ prompt = <<>>
  /\ result = NoResult
  /\ trace = <<>>
  /\ entry_memory = <<>>
  /\ calls = <<>>
  /\ asked = 0
  /\ cleared = FALSE

\* entering ask_question(q)
Enter(q) ==
  /\ question' = q
  /\ docs' = <<>>
  /\ answer' = <<>>
  /\ prompt' = <<>>
  /\ result' = NoResult
  /\ trace' = <<>>
  /\ entry_memory' = memory
  /\ qpc' = "asking"

\* ask_question returns r to its caller
Return(r) ==
  /\ result' = r
  /\ qpc' = "returned"
  /\ calls' = IF host = "session" THEN Append(calls, [question |-> question, result |-> r])
              ELSE calls

\* the emptiness test forgotten: an empty result goes on to synthesis
IsMiss_Never(found) == FALSE

\* `if not docs:`
IsMiss(found) == found = <<>>

\* api_mode's return values: line 344 and line 354
ApiAnsweredExit == <<0>>
\* the except branch returning 0 like the try branch
ApiInitFailedExit_Zero == <<0>>
ApiInitFailedExit == <<1>>

\* ask_question, lines 181-191: docs = self.retriever.invoke(question)
AskRetrieve ==
  /\ qpc = "asking"
  /\ \/ \E e \in RetrieverErrors :
          /\ trace' = Append(trace, "retrieval raised")
          /\ Return(ErrorResponse(question, e))
          /\ UNCHANGED docs
     \/ LET found == retriever_invoke(question, index) IN
        /\ docs' = found
        /\ trace' = Append(trace, "retrieval")
        /\ IF IsMiss(found)
           THEN /\ Return(MissResponse(question))
           ELSE /\ qpc' = "retrieved"
                /\ UNCHANGED << result, calls >>
  /\ UNCHANGED << ivars, host, sys_argv, qexit, stdout, memory, question, answer,
                  prompt, entry_memory, asked, cleared >>

\* ask_question, line 194: answer = self.rag_chain.invoke(question); the chain
\* (lines 156-165) asks the retriever again, formats what it gets, reads the
\* memory's messages and calls the model
AskSynthesize ==
  /\ qpc = "retrieved"
  /\ \/ \E e \in RetrieverErrors :
          /\ trace' = Append(trace, "chain retrieval raised")
          /\ Return(ErrorResponse(question, e))
          /\ UNCHANGED << answer, prompt >>
     \/ LET input == [context |-> format_docs(retriever_invoke(question, index)),
                      question |-> question,
                      chat_history |-> memory]
        IN /\ prompt' = <<input>>
           /\ \/ \E e \in LlmErrors :
                   /\ trace' = Append(trace, "synthesis raised")
                   /\ Return(ErrorResponse(question, e))
                   /\ UNCHANGED answer
              \/ \E reply \in LlmReplies :
                   /\ answer' = reply
                   /\ trace' = Append(trace, "synthesis")
                   /\ qpc' = "synthesized"
                   /\ UNCHANGED << result, calls >>
  /\ UNCHANGED << ivars, host, sys_argv, qexit, stdout, memory, question, docs,
                  entry_memory, asked, cleared >>

\* ask_question, lines 196-198: add_user_message, add_ai_message
AskUpdateMemory ==
  /\ qpc = "synthesized"
  /\ memory' = memory \o << HumanMessage(question), AIMessage(answer) >>
  /\ trace' = Append(trace, "memory")
  /\ qpc' = "memory_updated"
  /\ UNCHANGED << ivars, host, sys_argv, qexit, stdout, question, docs, answer,
                  prompt, result, entry_memory, calls, asked, cleared >>

\* ask_question, lines 200-231: the references, the result, return
AskFormatSources ==
  /\ qpc = "memory_updated"
  /\ trace' = Append(trace, "citations")
  /\ Return(SuccessResponse(question, answer, FormatSources(docs)))
  /\ UNCHANGED << ivars, host, sys_argv, qexit, stdout, memory, question, docs,
                  answer, prompt, entry_memory, asked, cleared >>

AskQuestion == AskRetrieve \/ AskSynthesize \/ AskUpdateMemory \/ AskFormatSources

\* json.dumps(d, ensure_ascii=False) printed as one line
JsonLine(d) == [json |-> d]

\* api_mode(), lines 325-340 and 346-354: the usage check, the construction
\* of the system (which may raise), the call
ApiMode ==
  /\ host = "script" /\ qpc = "start" /\ Len(sys_argv) = 2
  /\ LET q == <<sys_argv[2]>> IN
     \/ \E e \in InitErrors :
          /\ stdout' = Append(stdout, JsonLine(ErrorResponse(q, e)))
          /\ qexit' = ApiInitFailedExit
          /\ qpc' = "exited"
          /\ UNCHANGED << question, docs, answer, prompt, result, trace, entry_memory >>
     \/ /\ Enter(q)
        /\ UNCHANGED << stdout, qexit >>
  /\ UNCHANGED << ivars, host, sys_argv, memory, calls, asked, cleared >>

\* api_mode(), lines 342-344: print the result, return 0
ApiPrint ==
  /\ host = "script" /\ qpc = "returned" /\ Len(sys_argv) = 2
  /\ stdout' = Append(stdout, JsonLine(result))
  /\ qexit' = ApiAnsweredExit
  /\ qpc' = "exited"
  /\ UNCHANGED << ivars, host, sys_argv, memory, question, docs, answer, prompt,
                  result, trace, entry_memory, calls, asked, cleared >>

\* main(), lines 284-307: construction (may raise: "Test Failed", return 1),
\* test_retrieval() (catches its own exceptions, changes nothing), then the
\* first question of the loop
MainStart ==
  /\ host = "script" /\ qpc = "start" /\ Len(sys_argv) # 2
  /\ \/ \E e \in InitErrors :
          /\ stdout' = Append(stdout, [text |-> <<"Test Failed: ">> \o e])
          /\ qexit' = <<1>>
          /\ qpc' = "exited"
          /\ UNCHANGED << question, docs, answer, prompt, result, trace,
                          entry_memory, asked >>
     \/ /\ Enter(<<test_questions[1]>>)
        /\ asked' = 1
        /\ UNCHANGED << stdout, qexit >>
  /\ UNCHANGED << ivars, host, sys_argv, memory, calls, cleared >>

\* the keys main() reads from the result: result['answer'],
\* result['confidence'], result['sources']
MainReads == {"answer", "confidence", "sources"}

\* main(), lines 308-323: print the result's fields (a KeyError ends the run
\* with "Test Failed" and 1), then the next question, or the history and 0
MainLoop ==
  /\ host = "script" /\ qpc = "returned" /\ Len(sys_argv) # 2
  /\ IF ~(MainReads \subseteq DOMAIN result)
     THEN /\ stdout' = stdout \o
               << [text |-> <<"Answer: ">> \o result.answer],
                  [text |-> <<"Test Failed: ", "KeyError">>] >>
          /\ qexit' = <<1>>
          /\ qpc' = "exited"
          /\ UNCHANGED << question, docs, answer, prompt, result, trace,
                          entry_memory, asked >>
     ELSE IF asked < Len(test_questions)
     THEN /\ Enter(<<test_questions[asked + 1]>>)
          /\ asked' = asked + 1
          /\ stdout' = Append(stdout, [text |-> <<"Answer: ">> \o result.answer])
          /\ UNCHANGED qexit
     ELSE /\ stdout' = stdout \o
               << [text |-> <<"Answer: ">> \o result.answer],
                  [text |-> <<"Conversation Rounds: ",
                              ToString(Len(get_conversation_history(memory)))>>] >>
          /\ qexit' = <<0>>
          /\ qpc' = "exited"
          /\ UNCHANGED << question, docs, answer, prompt, result, trace,
                          entry_memory, asked >>
  /\ UNCHANGED << ivars, host, sys_argv, memory, calls, cleared >>

\* a host constructs LangChainRAGSystem(); the constructor may raise
SessionOpen ==
  /\ host = "session" /\ qpc = "start"
  /\ qpc' \in {"ready", "exited"}
  /\ UNCHANGED << ivars, host, sys_argv, qexit, stdout, memory, question, docs,
                  answer, prompt, result, trace, entry_memory, calls, asked, cleared >>

\* the host calls ask_question(q), one call at a time
SessionAsk ==
  /\ host = "session" /\ qpc \in {"ready", "returned"}
  /\ Len(calls) < MaxCalls
  /\ \E q \in SessionQuestions : Enter(q)
  /\ UNCHANGED << ivars, host, sys_argv, qexit, stdout, memory, calls, asked, cleared >>

\* clear_memory(), lines 256-259
ClearMemory ==
  /\ host = "session" /\ qpc \in {"ready", "returned"}
  /\ memory # <<>>
  /\ memory' = <<>>
  /\ cleared' = TRUE
  /\ qpc' = "ready"
  /\ UNCHANGED << ivars, host, sys_argv, qexit, stdout, question, docs, answer,
                  prompt, result, trace, entry_memory, calls, asked >>

IngestStep == Ingest /\ UNCHANGED qvars

Init == IngestInit /\ QueryInit

Next ==
  \/ IngestStep
  \/ AskQuestion
  \/ ApiMode \/ ApiPrint
  \/ MainStart \/ MainLoop
  \/ SessionOpen \/ SessionAsk \/ ClearMemory

Spec == Init /\ [][Next]_vars

(* =============================== claims ================================ *)
\* the call is under way or has just returned to its caller
InCall == qpc \in {"asking", "retrieved", "synthesized", "memory_updated", "returned"}

\* the citation list of a response, under whichever key the response carries it
Citations(r) ==
  IF "references" \in DOMAIN r THEN r.references
  ELSE IF "sources" \in DOMAIN r THEN r.sources
  ELSE << [absent |-> TRUE] >>

\* the retriever has answered this call, and answered with nothing
RetrievalMissed == InCall /\ trace # <<>> /\ trace[1] = "retrieval" /\ docs = <<>>

\* C1  Retrieval miss: once the retriever has returned an empty result the call
\* has returned, with the fixed answer "No relevant documentation found" and an
\* empty citation list; the language model was not invoked in the call and the
\* conversation memory is what it was when the call was entered.
C1_MissShortCircuits ==
  RetrievalMissed =>
    /\ qpc = "returned"
    /\ result.question = question
    /\ result.answer = <<"No relevant documentation found">>
    /\ Citations(result) = <<>>
    /\ prompt = <<>>
    /\ memory = entry_memory
    /\ get_conversation_history(memory) = get_conversation_history(entry_memory)

\* C1 witness: a miss on an index that holds chunks, none of them allow-listed
C1_Witness ==
  /\ RetrievalMissed /\ qpc = "returned"
  /\ index # <<>>

\* a stage of the call raised
Raised ==
  /\ InCall /\ trace # <<>>
  /\ trace[Len(trace)] \in {"retrieval raised", "chain retrieval raised", "synthesis raised"}

HasErrorIndicator(a) == a # <<>> /\ a[1] = "Error processing question: "

\* C2  Failure path: when retrieval or synthesis raises, the call has returned
\* (nothing is raised to the caller) a response with the same question, an
\* answer that starts with the error indicator and differs from the
\* retrieval-miss answer, and an empty citation list; the memory is unchanged.
C2_FailureIsInBand ==
  Raised =>
    /\ qpc = "returned"
    /\ result.question = question
    /\ HasErrorIndicator(result.answer)
    /\ result.answer # MissResponse(question).answer
    /\ Citations(result) = <<>>
    /\ memory = entry_memory

\* C2 witness: the model call failed in a session whose memory holds a turn
C2_Witness ==
  /\ Raised /\ trace[Len(trace)] = "synthesis raised"
  /\ prompt # <<>>
  /\ memory # <<>>

\* the calls that got an answer from the model
Answered(r) == "references" \in DOMAIN r
AnsweredCalls == SelectSeq(calls, LAMBDA c : Answered(c.result))

\* C3  Memory ordering: between the calls of a session in which clear_memory
\* was not called, get_conversation_history holds exactly one entry per
\* answered call, in call order, with that call's question and the answer that
\* call returned.
C3_HistoryIsAnsweredCalls ==
  (host = "session" /\ ~cleared /\ qpc \in {"ready", "returned"}) =>
    LET history == get_conversation_history(memory) IN
    /\ Len(history) = Len(AnsweredCalls)
    /\ \A i \in DOMAIN history :
         /\ history[i].question = AnsweredCalls[i].question
         /\ history[i].answer = AnsweredCalls[i].result.answer

\* C3 witness: two answered calls and one that was not, different questions
C3_Witness ==
  /\ host = "session" /\ ~cleared /\ qpc = "returned"
  /\ Len(AnsweredCalls) = 2
  /\ Len(calls) > 2
  /\ ~Answered(calls[2].result)
  /\ AnsweredCalls[1].question # AnsweredCalls[2].question

\* the call went through citation assembly and returned
Succeeded == qpc = "returned" /\ trace # <<>> /\ trace[Len(trace)] = "citations"

\* the position of the first of the chunks that carries the url
FirstWith(chunks, url) ==
  CHOOSE i \in DOMAIN chunks :
    /\ chunks[i].doc_url = url
    /\ \A j \in 1..(i - 1) : chunks[j].doc_url # url

\* C4  Citation assembly: the references of an answered call are built from
\* the first three retrieved chunks only: one entry for each distinct url
\* among them, in the order in which the urls first occur, the title being the
\* table's title of the chunk's document (or the fallback label).
\* (The retrieved chunks come from the index as the ingestion script writes
\* it, where every allow-listed document has a url.)
C4_Citations ==
  Succeeded =>
    LET top == SubSeq(docs, 1, IF Len(docs) < 3 THEN Len(docs) ELSE 3)
        refs == result.references
    IN /\ { refs[i].url : i \in DOMAIN refs } = { top[j].doc_url : j \in DOMAIN top }
       /\ \A i1, i2 \in DOMAIN refs : i1 # i2 => refs[i1].url # refs[i2].url
       /\ \A i1, i2 \in DOMAIN refs :
            i1 < i2 => FirstWith(top, refs[i1].url) < FirstWith(top, refs[i2].url)
       /\ \A i \in DOMAIN refs :
            refs[i].title = document_titles(top[FirstWith(top, refs[i].url)].doc_name)

\* C4 witness: more than three chunks retrieved; the first and the third share
\* a url, the second has another, and a later chunk's url is not cited
C4_Witness ==
  /\ Succeeded
  /\ Len(docs) > 3
  /\ docs[1].doc_url = docs[3].doc_url
  /\ docs[1].doc_url # docs[2].doc_url
  /\ Len(result.references) = 2

\* the retriever has answered this call
Retrieved == InCall /\ trace # <<>> /\ trace[1] = "retrieval"

\* C5  Filter enforcement: what the retriever returned holds at most k
\* chunks, each of a document on the allow-list, so that every cited url is
\* the url of a chunk of an allow-listed document.
C5_OnlyAllowedDocs ==
  /\ Retrieved =>
       /\ Len(docs) <= k
       /\ \A i \in DOMAIN docs : docs[i].doc_name \in allowed_docs
  /\ Succeeded =>
       \A i \in DOMAIN result.references :
         \E c \in Range(index) :
           c.doc_name \in allowed_docs /\ c.doc_url = result.references[i].url

\* C5 witness: the nearest chunk is not allow-listed, more than k chunks are,
\* and k chunks came back
C5_Witness ==
  /\ Retrieved
  /\ index # <<>>
  /\ BySimilarity(question, index)[1].doc_name \notin allowed_docs
  /\ Len(SelectSeq(index, LAMBDA c : c.doc_name \in allowed_docs)) > k
  /\ Len(docs) = k

\* the script runs in single-argument query mode / in test mode
ApiRun == host = "script" /\ Len(sys_argv) = 2
TestRun == host = "script" /\ Len(sys_argv) # 2

\* the JSON objects the query script printed
JsonPrinted == { stdout[i].json : i \in { j \in DOMAIN stdout : "json" \in DOMAIN stdout[j] } }

\* C6  Output shape of the single-argument mode: every JSON object printed
\* has the keys "question", "answer" and "references", the references being
\* {title, url} objects.  (Stated as in the specification; the miss, failure
\* and initialization-failure responses carry "sources" and "confidence"
\* instead of "references".)
C6_OutputShape ==
  ApiRun =>
    \A o \in JsonPrinted :
      /\ {"question", "answer", "references"} \subseteq DOMAIN o
      /\ \A i \in DOMAIN o.references : DOMAIN o.references[i] = {"title", "url"}

\* C7 as stated: the single-argument mode always exits with 0
C7_AlwaysExitsZero ==
  (ApiRun /\ qpc = "exited") => qexit = <<0>>

\* C7  Exit status of the single-argument mode, amended: the process prints
\* one JSON object; when ask_question returned (answer, miss or failure
\* inside the call) it is that response and the exit status is 0; when the
\* system could not be initialized the object carries the error description
\* in its answer and the exit status is 1.
C7_ExitStatus ==
  (ApiRun /\ qpc = "exited") =>
    /\ Len(stdout) = 1
    /\ "json" \in DOMAIN stdout[1]
    /\ IF result = NoResult
       THEN /\ qexit = <<1>>
            /\ HasErrorIndicator(stdout[1].json.answer)
            /\ stdout[1].json.question = <<sys_argv[2]>>
       ELSE /\ qexit = <<0>>
            /\ stdout[1].json = result
            /\ result.question = <<sys_argv[2]>>

\* C7 witness: the system failed to initialize in single-argument mode
C7_Witness ==
  /\ ApiRun /\ qpc = "exited"
  /\ result = NoResult
  /\ stdout # <<>>

\* C8  Test mode, as stated: once the system is initialized the run ends
\* having submitted every test question, printed the conversation history
\* and returned 0.
C8_TestModeRunsAllQuestions ==
  (TestRun /\ qpc = "exited" /\ asked >= 1) =>
    /\ asked = Len(test_questions)
    /\ qexit = <<0>>
    /\ stdout[Len(stdout)].text[1] = "Conversation Rounds: "

DocTypes == {"Troubleshooting", "Authentication", "Security", "Administration", "General"}

\* the chunks of one document among the processed chunks, in emission order
ChunksOfDoc(name) == SelectSeq(all_chunks, LAMBDA c : c.doc_name = name)

\* C9  Metadata completeness: every chunk process_pdf returned carries a
\* document identifier, a document type, a page number >= 1 and a chunk
\* index; the chunk indices of one document are 0, 1, ..., n-1 in emission
\* order.
C9_Metadata ==
  /\ \A i \in DOMAIN all_chunks :
       LET c == all_chunks[i] IN
       /\ {"doc_name", "doc_type", "page_number", "chunk_id"} \subseteq DOMAIN c
       /\ c.doc_name # <<>>
       /\ c.doc_type \in DocTypes
       /\ c.page_number >= 1
  /\ \A name \in { all_chunks[i].doc_name : i \in DOMAIN all_chunks } :
       \A j \in DOMAIN ChunksOfDoc(name) : ChunksOfDoc(name)[j].chunk_id = j - 1

\* C9 witness: a run that processed a document longer than max_pages pages
\* (its last chunk is on page max_pages) next to another document with
\* several chunks
C9_Witness ==
  /\ listing # <<>>
  /\ \E f \in Range(listing[1].files) : f.npages > max_pages
  /\ \E i \in DOMAIN all_chunks :
       all_chunks[i].page_number = max_pages /\ all_chunks[i].chunk_id > 1
  /\ \E i \in DOMAIN all_chunks :
       all_chunks[i].doc_name # <<AZURE>> /\ all_chunks[i].chunk_id > 1

\* the directory the run looked at has no eligible PDF file
FoundNothing == listing # <<>> /\ (~listing[1].exists \/ PdfFilesIn(listing[1]) = <<>>)

\* C10  Exit status of the ingestion script: 1, with no document processed
\* and the index untouched, when a required variable is missing; 1 when the
\* corpus directory is missing or holds no PDF file; 0 only when every PDF
\* file of the directory was processed and all chunks were written to the
\* index; 1 in every other case.
C10_IngestExit ==
  /\ (ipc = "exited") <=> (iexit \in { <<0>>, <<1>> })
  /\ ipc # "exited" => iexit = <<>>
  /\ missing_vars # <<>> =>
       /\ iexit = <<1>>
       /\ listing = <<>> /\ documents = <<>> /\ all_chunks = <<>>
       /\ upserted = 0 /\ index = <<>>
  /\ FoundNothing =>
       /\ iexit = <<1>>
       /\ documents = <<>> /\ upserted = 0 /\ index = <<>>
  /\ iexit = <<0>> =>
       /\ missing_vars = <<>>
       /\ listing # <<>> /\ ~FoundNothing
       /\ documents = [i \in DOMAIN PdfFilesIn(listing[1]) |-> PdfFilesIn(listing[1])[i].name]
       /\ \A i \in DOMAIN documents : PdfFilesIn(listing[1])[i].readable
       /\ upserted = Len(all_chunks)
       /\ index = all_chunks

\* C10 witness: the directory exists and holds files, none of them a PDF
C10_Witness ==
  /\ FoundNothing
  /\ listing[1].exists /\ listing[1].files # <<>>
  /\ ipc = "exited"

\* the stages of one query, in the order the specification gives them
Stages == << "retrieval", "synthesis", "memory", "citations" >>

\* the language model was called in this call
ReachedSynthesis == InCall /\ prompt # <<>>

\* C11  Stage order with one retrieval result, as stated: in a call that
\* reached synthesis the stages passed are retrieval, synthesis, memory
\* append, citation assembly in this order; the context the model was given
\* is the formatting of the non-empty result that was tested for emptiness
\* (and from which the citations are assembled); the history the model was
\* given holds only the turns of earlier queries.  (The chain asks the
\* retriever a second time, so the context is the formatting of a second
\* result, which differs from the first when the index was written to in
\* between.)
C11_OneRetrievalResult ==
  ReachedSynthesis =>
    /\ \/ \E n \in 2..Len(Stages) : trace = SubSeq(Stages, 1, n)
       \/ trace = << "retrieval", "synthesis raised" >>
    /\ docs # <<>>
    /\ prompt[1].context = format_docs(docs)
    /\ prompt[1].question = question
    /\ prompt[1].chat_history = entry_memory
    /\ Succeeded => result.references = FormatSources(docs)
====
